---- MODULE Spec2Model ----
(***************************************************************************)
(* HyperLogLog cardinality estimator (package pds, hyperloglog.go).        *)
(*                                                                         *)
(* Representation.  TLC's integers are 32 bits wide and signed, so:        *)
(*  - a uint32 is the pair <<hi, lo>> of its two 16-bit halves;            *)
(*  - a float64 is kept exactly: a ratio of two naturals, the product      *)
(*    m * ln(m / v) or +Inf.  Naturals of any size are sequences of        *)
(*    base-2^13 digits, least significant first;                           *)
(*  - MinInt and MaxInt stand for the least and greatest value of Go's     *)
(*    int and int64.                                                       *)
(***************************************************************************)
EXTENDS Integers, Sequences, FiniteSets, TLC

VARIABLES
    goarch,        \* the target the program was built for
    indexBitsArg,  \* the argument NewHyperLogLog was called with
    hll,           \* the HyperLogLog it returned
    err,           \* whether it returned an error
    panicked,      \* whether a call ended in a run-time panic
    returned,      \* <<v>> if the last call returned v, <<>> otherwise
    added,         \* the values added so far (where the history is followed)
    repeated,      \* whether the last Add was of a value added before
    filled,        \* how many of FillValues the caller has added
    splitIn,       \* <<h>>: the hash last handed to splitBinary
    splitOut       \* <<result>>: what splitBinary returned for it

vars == <<goarch, indexBitsArg, hll, err, panicked, returned,
          added, repeated, filled, splitIn, splitOut>>

----------------------------------------------------------------------------
(* Bounds of the model.                                                    *)

\* NewHyperLogLog is tried with every indexBits in 0..MaxIndexBits.
MaxIndexBits == 18

\* The history of added values is followed for indexBits up to this.
HistMaxIndexBits == 8

----------------------------------------------------------------------------
(* Program constants.                                                      *)

byteSize == 8

MinPrecision == 4

MaxPrecision == 16

----------------------------------------------------------------------------
(* uint32 arithmetic on <<hi, lo>> pairs.                                  *)

Half == 2^16

U32 == (0..(Half - 1)) \X (0..(Half - 1))

RECURSIVE And16(_, _)
And16(a, b) ==
    IF a = 0 \/ b = 0 THEN 0
    ELSE (a % 2) * (b % 2) + 2 * And16(a \div 2, b \div 2)

\* x & y
And32(x, y) == <<And16(x[1], y[1]), And16(x[2], y[2])>>

\* x + y, wrapping at 2^32
Add32(x, y) ==
    LET lo == x[2] + y[2]
        hi == x[1] + y[1] + (lo \div Half)
    IN  <<hi % Half, lo % Half>>

\* x - y, wrapping at 2^32
Sub32(x, y) ==
    LET borrow == IF x[2] < y[2] THEN 1 ELSE 0
        lo == x[2] - y[2] + borrow * Half
        hi == x[1] - y[1] - borrow
    IN  <<hi % Half, lo>>

\* -x, wrapping at 2^32
Neg32(x) == Sub32(<<0, 0>>, x)

\* x >> n (a shift by 32 or more gives 0)
Shr32(x, n) ==
    IF n >= 32 THEN <<0, 0>>
    ELSE IF n >= 16 THEN <<0, x[1] \div 2^(n - 16)>>
    ELSE <<x[1] \div 2^n, (x[2] \div 2^n) + (x[1] % 2^n) * 2^(16 - n)>>

\* uint32(math.Pow(2, i)) for i in 0..31
Pow2U32(i) == IF i >= 16 THEN <<2^(i - 16), 0>> ELSE <<0, 2^i>>

\* position of the single set bit of a power of two: math.Log2 is exact there
RECURSIVE Log2Pow16(_)
Log2Pow16(a) == IF a <= 1 THEN 0 ELSE 1 + Log2Pow16(a \div 2)

Log2Pow32(x) == IF x[2] # 0 THEN Log2Pow16(x[2]) ELSE 16 + Log2Pow16(x[1])

----------------------------------------------------------------------------
(* Conversions the Go specification leaves implementation-dependent.  A    *)
(* float64 that the integer type cannot hold converts to the least integer *)
(* on amd64, saturates on arm64, and becomes the greatest integer on       *)
(* mips64.  The target is chosen once, when the program is built.          *)

MaxInt == 2^30 + (2^30 - 1)

MinInt == (-MaxInt) - 1

GoArchs == {"amd64", "arm64", "mips64"}

\* int(-Inf)
IntOfNegInf(arch) == IF arch = "mips64" THEN MaxInt ELSE MinInt

\* int64(+Inf)
IntOfPosInf(arch) == IF arch = "amd64" THEN MinInt ELSE MaxInt

\* a + 1 in Go's int: signed overflow wraps
IntInc(a) == IF a = MaxInt THEN MinInt ELSE a + 1

----------------------------------------------------------------------------
(* hash: 32-bit FNV-1a (hash/fnv New32a), given by its value on the        *)
(* strings the model adds.                                                 *)

FnvSums ==
    { <<"02daxdk", <<0, 213>>>>,                \* 0x000000d5
      <<"1ud3c0f", <<0, 5>>>>,                  \* 0x00000005
      <<"afjtjzd", <<2^15, 0>>>>,               \* 0x80000000
      <<"prezece", <<Half - 1, Half - 1>>>>,    \* 0xffffffff
      <<"icjbdbk", <<1, 0>>>>,                  \* 0x00010000
      <<"ewofwof", <<0, 16>>>>, <<"ljaiybq", <<0, 17>>>>,
      <<"fwcpwkm", <<0, 18>>>>, <<"fsrjfiv", <<0, 19>>>>,
      <<"lkqvwcm", <<0, 20>>>>, <<"nsltcfd", <<0, 21>>>>,
      <<"6a6zir9", <<0, 22>>>>, <<"fiueiso", <<0, 23>>>>,
      <<"kndlvco", <<0, 24>>>>, <<"imchfli", <<0, 25>>>>,
      <<"nscdszz", <<0, 26>>>>, <<"0otjvrs", <<0, 27>>>>,
      <<"fshahhe", <<0, 28>>>>, <<"hulelcs", <<0, 29>>>>,
      <<"07b8dht", <<0, 30>>>>, <<"scujlen", <<0, 31>>>>,
      <<"033njmd", <<0, 128>>>>, <<"114hk3j", <<0, 129>>>>,
      <<"0n0ukdm", <<0, 130>>>>, <<"169c911", <<0, 131>>>>,
      <<"2q6hnxh", <<0, 132>>>>, <<"0lgwrzx", <<0, 133>>>>,
      <<"0lke2j3", <<0, 134>>>>, <<"16753g9", <<0, 135>>>>,
      <<"0wov8c8", <<0, 136>>>>, <<"3ic32kg", <<0, 137>>>>,
      <<"09m5oyj", <<0, 138>>>>, <<"1luzt1i", <<0, 139>>>>,
      <<"05s7aly", <<0, 140>>>>, <<"1wqubzh", <<0, 141>>>>,
      <<"0mey2wi", <<0, 142>>>>, <<"0thwdvg", <<0, 143>>>> }

hash(value) == (CHOOSE e \in FnvSums : e[1] = value)[2]

\* The strings a caller adds in any order.
Values == {"02daxdk", "1ud3c0f", "afjtjzd", "prezece", "icjbdbk", "ewofwof"}

\* The strings a caller adds one after the other: their hashes are 16..31,
\* then 128..143.
FillValues ==
    <<"ewofwof", "ljaiybq", "fwcpwkm", "fsrjfiv", "lkqvwcm", "nsltcfd",
      "6a6zir9", "fiueiso", "kndlvco", "imchfli", "nscdszz", "0otjvrs",
      "fshahhe", "hulelcs", "07b8dht", "scujlen",
      "033njmd", "114hk3j", "0n0ukdm", "169c911", "2q6hnxh", "0lgwrzx",
      "0lke2j3", "16753g9", "0wov8c8", "3ic32kg", "09m5oyj", "1luzt1i",
      "05s7aly", "1wqubzh", "0mey2wi", "0thwdvg">>

----------------------------------------------------------------------------
(* Splitting a hash.                                                       *)

\* the loop of getHeadBitTotal: x += 2^i for i = from .. to-1
RECURSIVE HeadBitLoop(_, _, _)
HeadBitLoop(i, to, x) ==
    IF i >= to THEN x ELSE HeadBitLoop(i + 1, to, Add32(x, Pow2U32(i)))

getHeadBitTotal(bits, byteNumber) ==
    LET start == byteSize * byteNumber - byteSize
    IN  HeadBitLoop(start, bits + start, <<0, 0>>)

\* getSignificantBits taking the bits above the first byte from byte 1 again
getSignificantBitsOneByte(n) ==
    IF n <= byteSize
    THEN getHeadBitTotal(n, 1)
    ELSE Add32(getHeadBitTotal(byteSize, 1), getHeadBitTotal(n - byteSize, 1))

getSignificantBits(n) ==
    IF n <= byteSize
    THEN getHeadBitTotal(n, 1)
    ELSE Add32(getHeadBitTotal(byteSize, 1), getHeadBitTotal(n - byteSize, 2))

\* <<binaryIndex, unusedBinary>>
splitBinary(indexBits, h) ==
    LET binaryTotal == getSignificantBits(indexBits)
        binaryIndex == And32(h, binaryTotal)
        unusedBinary == Shr32(Sub32(h, binaryIndex), indexBits)
    IN  <<binaryIndex, unusedBinary>>

----------------------------------------------------------------------------
(* Buckets.                                                                *)

\* int(math.Log2(float64(a & -a))); Log2(0) is -Inf
findRun(arch, a) ==
    LET low == And32(a, Neg32(a))
    IN  IF low = <<0, 0>> THEN IntOfNegInf(arch) ELSE Log2Pow32(low)

\* updateLongestRun adding the run up instead of keeping the longest
updateLongestRunSum(arch, b, value) ==
    LET cardinalityEstimation == IntInc(findRun(arch, value))
    IN  IF 0 < cardinalityEstimation THEN b + cardinalityEstimation ELSE b

\* updateLongestRun with the comparison turned round
updateLongestRunShortest(arch, b, value) ==
    LET cardinalityEstimation == IntInc(findRun(arch, value))
    IN  IF b > cardinalityEstimation THEN cardinalityEstimation ELSE b

\* updateLongestRun without the comparison: the last run wins
updateLongestRunLast(arch, b, value) == IntInc(findRun(arch, value))

\* the bucket's cardinalityEstimation after updateLongestRun(value)
updateLongestRun(arch, b, value) ==
    LET cardinalityEstimation == IntInc(findRun(arch, value))
    IN  IF b < cardinalityEstimation THEN cardinalityEstimation ELSE b

\* n zero buckets
RECURSIVE ZeroBuckets(_)
ZeroBuckets(n) ==
    IF n = 0 THEN <<>>
    ELSE LET half == ZeroBuckets(n \div 2)
         IN  IF n % 2 = 0 THEN half \o half ELSE half \o half \o <<0>>

\* newBucketGroup one bucket short
newBucketGroupShort(mBuckets) == ZeroBuckets(mBuckets - 1)

\* make(bucketGroup, mBuckets): a sequence, Go's bucket j at position j + 1
newBucketGroup(mBuckets) == ZeroBuckets(mBuckets)

\* the bucket group after Add(s)
AddBuckets(arch, h, s) ==
    LET split == splitBinary(h.indexBits, hash(s))
        binaryIndex == split[1][1] * Half + split[1][2]
    IN  [h.bucketGroup EXCEPT
            ![binaryIndex + 1] = updateLongestRun(arch, @, split[2])]

----------------------------------------------------------------------------
(* Naturals of any size: sequences of digits in base BigBase, least        *)
(* significant first, without leading zero digits; <<>> is 0.              *)

BigBase == 2^13

RECURSIVE BigFromInt(_)
BigFromInt(n) ==
    IF n = 0 THEN <<>> ELSE <<n % BigBase>> \o BigFromInt(n \div BigBase)

RECURSIVE BigToInt(_)
BigToInt(a) ==
    IF a = <<>> THEN 0 ELSE Head(a) + BigBase * BigToInt(Tail(a))

BigDigit(a) == IF a = <<>> THEN 0 ELSE Head(a)

BigRest(a) == IF a = <<>> THEN <<>> ELSE Tail(a)

RECURSIVE BigAddCarry(_, _, _)
BigAddCarry(a, b, c) ==
    IF a = <<>> /\ b = <<>> THEN BigFromInt(c)
    ELSE LET x == BigDigit(a) + BigDigit(b) + c
         IN  <<x % BigBase>> \o BigAddCarry(BigRest(a), BigRest(b), x \div BigBase)

BigAdd(a, b) == BigAddCarry(a, b, 0)

\* a * k + c for 0 <= k <= 2^17
RECURSIVE BigMulSmallCarry(_, _, _)
BigMulSmallCarry(a, k, c) ==
    IF a = <<>> THEN BigFromInt(c)
    ELSE LET x == Head(a) * k + c
         IN  <<x % BigBase>> \o BigMulSmallCarry(Tail(a), k, x \div BigBase)

BigMulSmall(a, k) == IF k = 0 THEN <<>> ELSE BigMulSmallCarry(a, k, 0)

\* a * BigBase
BigShiftUp(a) == IF a = <<>> THEN <<>> ELSE <<0>> \o a

\* a \div BigBase^q
BigShiftDown(a, q) == IF Len(a) <= q THEN <<>> ELSE SubSeq(a, q + 1, Len(a))

RECURSIVE BigMul(_, _)
BigMul(a, b) ==
    IF b = <<>> THEN <<>>
    ELSE BigAdd(BigMulSmall(a, Head(b)), BigShiftUp(BigMul(a, Tail(b))))

\* <<a \div k, a % k>> for 1 <= k <= 2^17
RECURSIVE BigDivModSmall(_, _)
BigDivModSmall(a, k) ==
    IF a = <<>> THEN <<(<<>>), 0>>
    ELSE LET r == BigDivModSmall(Tail(a), k)
             cur == r[2] * BigBase + Head(a)
             q == cur \div k
         IN  <<IF q = 0 /\ r[1] = <<>> THEN <<>> ELSE <<q>> \o r[1], cur % k>>

BigDivSmall(a, k) == BigDivModSmall(a, k)[1]

\* -1, 0 or 1 as a < b, a = b or a > b
RECURSIVE BigCmp(_, _)
BigCmp(a, b) ==
    IF Len(a) # Len(b) THEN (IF Len(a) < Len(b) THEN -1 ELSE 1)
    ELSE IF a = <<>> THEN 0
    ELSE LET c == BigCmp(Tail(a), Tail(b))
         IN  IF c # 0 THEN c
             ELSE IF Head(a) < Head(b) THEN -1
             ELSE IF Head(a) > Head(b) THEN 1 ELSE 0

BigLeq(a, b) == BigCmp(a, b) <= 0

\* the greatest q in 0..MaxInt with q * d <= n, built bit by bit from 2^bit down
RECURSIVE BigQuotBits(_, _, _, _)
BigQuotBits(n, d, bit, q) ==
    IF bit < 0 THEN q
    ELSE IF BigLeq(BigMul(d, BigFromInt(q + 2^bit)), n)
    THEN BigQuotBits(n, d, bit - 1, q + 2^bit)
    ELSE BigQuotBits(n, d, bit - 1, q)

BigQuot(n, d) == BigQuotBits(n, d, 30, 0)

----------------------------------------------------------------------------
(* math.Log.  m * ln(m / v) is never an integer unless v = m, so its       *)
(* truncation is settled by enclosing it between two fixed-point bounds    *)
(* (scale BigBase^3) that are tightened until they truncate alike:         *)
(*   ln(m / v) = e * ln 2 + ln(m / w),  w = v * 2^e,  w <= m < 2 * w,      *)
(*   ln(a / b) = 2 * atanh((a - b) / (a + b)),  ln 2 = 2 * atanh(1 / 3),   *)
(*   atanh z   = z + z^3 / 3 + z^5 / 5 + ...                               *)

BigScaleUp(a) == BigShiftUp(BigShiftUp(BigShiftUp(a)))

BigScaleDown(a) == BigShiftDown(a, 3)

BigInc(a) == BigAdd(a, <<1>>)

\* bounds <<lo, hi>> of the terms i..n added to <<slo, shi>>, and of the rest
RECURSIVE AtanhTerms(_, _, _, _, _, _, _, _, _, _)
AtanhTerms(i, n, k, d, plo, phi, slo, shi, z2lo, z2hi) ==
    LET nplo == BigScaleDown(BigMul(plo, z2lo))
        nphi == BigInc(BigScaleDown(BigMul(phi, z2hi)))
    IN  IF i > n
        THEN \* the rest is at most z^(2n+3) / ((2n+3) * (1 - z^2))
             LET rest == BigInc(BigDivSmall(BigDivSmall(BigDivSmall(
                             BigMulSmall(BigMulSmall(nphi, d), d),
                             d - k), d + k), 2 * n + 3))
             IN  <<slo, BigAdd(shi, rest)>>
        ELSE AtanhTerms(i + 1, n, k, d, nplo, nphi,
                        BigAdd(slo, BigDivSmall(nplo, 2 * i + 1)),
                        BigAdd(shi, BigInc(BigDivSmall(nphi, 2 * i + 1))),
                        z2lo, z2hi)

\* bounds of atanh(k / d) from its terms 0..n, for 0 <= k < d
AtanhBounds(k, d, n) ==
    IF k = 0 THEN <<(<<>>), (<<>>)>>
    ELSE LET zlo == BigDivSmall(BigScaleUp(BigFromInt(k)), d)
             zhi == BigInc(zlo)
             z2lo == BigScaleDown(BigMul(zlo, zlo))
             z2hi == BigInc(BigScaleDown(BigMul(zhi, zhi)))
         IN  AtanhTerms(1, n, k, d, zlo, zhi, zlo, zhi, z2lo, z2hi)

\* the greatest e with v * 2^e <= m
RECURSIVE Log2Floor(_, _)
Log2Floor(m, v) == IF 2 * v <= m THEN 1 + Log2Floor(m, 2 * v) ELSE 0

RECURSIVE TruncMLogFrom(_, _, _)
TruncMLogFrom(m, v, n) ==
    LET e == Log2Floor(m, v)
        w == v * 2^e
        a == AtanhBounds(m - w, m + w, n)
        b == AtanhBounds(1, 3, n)
        lo == BigToInt(BigScaleDown(
                  BigMulSmall(BigAdd(a[1], BigMulSmall(b[1], e)), 2 * m)))
        hi == BigToInt(BigScaleDown(
                  BigMulSmall(BigAdd(a[2], BigMulSmall(b[2], e)), 2 * m)))
    IN  IF lo = hi THEN lo ELSE TruncMLogFrom(m, v, n + 1)

\* int64(m * math.Log(m / v)) for 1 <= v <= m
TruncMLog(m, v) == IF v = m THEN 0 ELSE TruncMLogFrom(m, v, 0)

----------------------------------------------------------------------------
(* float64 values, kept exactly.                                           *)

FRat(n, d) == [k |-> "rat", n |-> n, d |-> d]       \* n / d, naturals

FMLog(m, v) == [k |-> "mlog", m |-> m, v |-> v]     \* m * ln(m / v)

FInf == [k |-> "inf"]                               \* +Inf

\* 2^e as a natural
BigPow2(e) ==
    [i \in 1..((e \div 13) + 1) |-> IF i = (e \div 13) + 1 THEN 2^(e % 13) ELSE 0]

\* int64(x)
Int64Of(arch, x) ==
    CASE x.k = "rat" -> BigQuot(x.n, x.d)
      [] x.k = "mlog" -> TruncMLog(x.m, x.v)
      [] x.k = "inf" -> IntOfPosInf(arch)

----------------------------------------------------------------------------
(* Estimation.                                                             *)

\* bg.Len()
BucketLen(bg) == Len(bg)

countZeroBuckets(bg) == Cardinality({j \in DOMAIN bg : bg[j] = 0})

\* totalBuckets * math.Log(totalBuckets / countZeroBuckets); x / 0 is +Inf
smallRangeCorrection(bg, prediction, totalBuckets) ==
    LET zeros == countZeroBuckets(bg)
    IN  IF zeros = 0 THEN FInf ELSE FMLog(totalBuckets, zeros)

\* prediction <= 2.5 * bg.Len(), for prediction = n / d
IsSmallRange(bg, prediction) ==
    BigLeq(BigMulSmall(prediction.n, 2),
           BigMulSmall(BigMulSmall(prediction.d, 5), BucketLen(bg)))

\* correct comparing with 2.5 instead of 2.5 * bg.Len()
correctUnscaled(bg, prediction) ==
    IF BigLeq(BigMulSmall(prediction.n, 2), BigMulSmall(prediction.d, 5))
    THEN smallRangeCorrection(bg, prediction, BucketLen(bg))
    ELSE prediction

correct(bg, prediction) ==
    IF IsSmallRange(bg, prediction)
    THEN smallRangeCorrection(bg, prediction, BucketLen(bg))
    ELSE prediction

SetMax(S) == CHOOSE x \in S : \A y \in S : y <= x

\* sum over the ranks R of (number of buckets holding r) * 2^(shift - r)
RECURSIVE RankSum(_, _, _, _, _)
RankSum(bg, nonZero, zeros, shift, R) ==
    IF R = {} THEN <<>>
    ELSE LET r == CHOOSE x \in R : TRUE
             count == IF r = 0 THEN zeros
                      ELSE Cardinality({j \in nonZero : bg[j] = r})
         IN  BigAdd(BigMulSmall(BigPow2(shift - r), count),
                    RankSum(bg, nonZero, zeros, shift, R \ {r}))

BucketTotalOf(bg, nonZero) ==
    LET zeros == Len(bg) - Cardinality(nonZero)
        ranks == {bg[j] : j \in nonZero} \cup (IF zeros > 0 THEN {0} ELSE {})
        shift == SetMax(ranks \cup {0})
    IN  [sum |-> RankSum(bg, nonZero, zeros, shift, ranks), shift |-> shift]

\* The loop adds 2^-v for every bucket.  Every partial sum is a multiple of
\* 2^-31 below 2^17, so float64 holds it exactly and the order of the
\* additions does not matter: total = sum / 2^shift.
BucketTotal(bg) == BucketTotalOf(bg, {j \in DOMAIN bg : bg[j] # 0})

\* (constant * bg.Len() * bg.Len()) / total
RawPrediction(bg, constant) ==
    LET total == BucketTotal(bg)
        len == BucketLen(bg)
    IN  FRat(BigMul(BigMulSmall(BigMulSmall(BigFromInt(constant.num), len), len),
                    BigPow2(total.shift)),
             BigMul(BigFromInt(constant.den), total.sum))

\* int64(bg.correct((constant * bg.Len() * bg.Len()) / total))
harmonicMean(arch, bg, constant) ==
    Int64Of(arch, correct(bg, RawPrediction(bg, constant)))

----------------------------------------------------------------------------
(* Construction.                                                           *)

\* HyperLogLog{}
ZeroHyperLogLog ==
    [constant |-> [num |-> 0, den |-> 1], indexBits |-> 0, mBuckets |-> 0,
     bucketGroup |-> <<>>]

\* 0.7213 / (1 + 1.079/mBuckets) = 7213 * mBuckets / (10000 * mBuckets + 10790)
BiasConstant(indexBits, mBuckets) ==
    CASE indexBits = 4 -> [num |-> 673, den |-> 1000]
      [] indexBits = 5 -> [num |-> 697, den |-> 1000]
      [] indexBits = 6 -> [num |-> 709, den |-> 1000]
      [] OTHER -> [num |-> 7213 * mBuckets, den |-> 10000 * mBuckets + 10790]

\* NewHyperLogLog refusing the greatest precision too
NewHyperLogLogExclusive(indexBits) ==
    IF indexBits < MinPrecision \/ indexBits >= MaxPrecision
    THEN [hll |-> ZeroHyperLogLog, err |-> TRUE]
    ELSE LET mBuckets == 2^indexBits
         IN  [hll |-> [constant |-> BiasConstant(indexBits, mBuckets),
                       indexBits |-> indexBits,
                       mBuckets |-> mBuckets,
                       bucketGroup |-> ZeroBuckets(mBuckets)],
              err |-> FALSE]

\* [hll, err]
NewHyperLogLog(indexBits) ==
    IF indexBits < MinPrecision \/ indexBits > MaxPrecision
    THEN [hll |-> ZeroHyperLogLog, err |-> TRUE]
    ELSE LET mBuckets == 2^indexBits
         IN  [hll |-> [constant |-> BiasConstant(indexBits, mBuckets),
                       indexBits |-> indexBits,
                       mBuckets |-> mBuckets,
                       bucketGroup |-> newBucketGroup(mBuckets)],
              err |-> FALSE]

EstimateOf(arch, h) == harmonicMean(arch, h.bucketGroup, h.constant)

----------------------------------------------------------------------------
(* The program: a caller builds one HyperLogLog and, unless that failed,   *)
(* calls Add and EstimateCardinality on it in any order.                   *)

\* hll, err := NewHyperLogLog(indexBitsArg)
Construct ==
    /\ goarch \in GoArchs
    /\ indexBitsArg \in 0..MaxIndexBits
    /\ hll = NewHyperLogLog(indexBitsArg).hll
    /\ err = NewHyperLogLog(indexBitsArg).err
    /\ panicked = FALSE
    /\ returned = <<>>
    /\ added = {}
    /\ repeated = FALSE
    /\ filled = 0
    /\ splitOut = <<>>

Init == Construct /\ splitIn = <<>>

\* The caller uses hll only if NewHyperLogLog returned no error, and a panic
\* ends the program.
Usable == ~err /\ ~panicked

\* the index Add(s) uses
AddIndex(h, s) ==
    LET binaryIndex == splitBinary(h.indexBits, hash(s))[1]
    IN  IF binaryIndex[1] = 0 THEN binaryIndex[2] ELSE Half

\* hll.Add(s): indexing outside the bucket group panics
AddCall(s) ==
    /\ Usable
    /\ IF AddIndex(hll, s) < Len(hll.bucketGroup)
       THEN /\ hll' = [hll EXCEPT !.bucketGroup = AddBuckets(goarch, hll, s)]
            /\ panicked' = FALSE
       ELSE /\ hll' = hll
            /\ panicked' = TRUE
    /\ returned' = <<>>
    /\ UNCHANGED <<goarch, indexBitsArg, err, splitIn, splitOut>>

Add(s) == AddCall(s) /\ UNCHANGED <<added, repeated, filled>>

\* Add, with the history of added values kept
AddTracked(s) ==
    /\ AddCall(s)
    /\ added' = added \cup {s}
    /\ repeated' = (s \in added)
    /\ UNCHANGED filled

\* the caller adds the next of FillValues
AddNextFill ==
    /\ filled < Len(FillValues)
    /\ AddCall(FillValues[filled + 1])
    /\ filled' = filled + 1
    /\ UNCHANGED <<added, repeated>>

EstimateCardinality ==
    /\ Usable
    /\ returned' = <<EstimateOf(goarch, hll)>>
    /\ UNCHANGED <<goarch, indexBitsArg, hll, err, panicked, added, repeated,
                   filled, splitIn, splitOut>>

\* hll.splitBinary(h) for the hash h the caller holds
SplitBinary ==
    /\ Usable
    /\ splitIn # <<>>
    /\ splitOut = <<>>
    /\ splitOut' = <<splitBinary(hll.indexBits, splitIn[1])>>
    /\ UNCHANGED <<goarch, indexBitsArg, hll, err, panicked, returned, added,
                   repeated, filled, splitIn>>

Next == (\E s \in Values : Add(s)) \/ EstimateCardinality

Spec == Init /\ [][Next]_vars

\* the same program, with the set of added values recorded
HistInit == Init /\ indexBitsArg <= HistMaxIndexBits

HistNext == (\E s \in Values : AddTracked(s)) \/ EstimateCardinality

HistSpec == HistInit /\ [][HistNext]_vars

\* a caller of least precision that also adds FillValues one after the other
FillInit == Init /\ indexBitsArg = MinPrecision

FillNext == (\E s \in Values : Add(s)) \/ AddNextFill \/ EstimateCardinality

FillSpec == FillInit /\ [][FillNext]_vars

\* splitBinary applied to hashes
SplitHalves == {0, 1, 213, 255, 256, 21845, 43690, Half - 1}

SplitHashes == SplitHalves \X SplitHalves

SplitInit == Construct /\ splitIn \in {<<h>> : h \in SplitHashes}

SplitNext == SplitBinary

SplitSpec == SplitInit /\ [][SplitNext]_vars

----------------------------------------------------------------------------
(* Properties.                                                             *)

Buckets == hll.bucketGroup

\* the bucket index and the rank Add(s) computes for the value s
IndexOf(s) ==
    LET binaryIndex == splitBinary(hll.indexBits, hash(s))[1]
    IN  binaryIndex[1] * Half + binaryIndex[2]

RemainderOf(s) == splitBinary(hll.indexBits, hash(s))[2]

RankOf(s) == IntInc(findRun(goarch, RemainderOf(s)))

\* C1: NewHyperLogLog returns an error exactly when indexBits < 4 or
\* indexBits > 16; 4 and 16 are accepted, 3 and 17 are refused.
C1_ErrorExactlyOutOfRange ==
    /\ err <=> (indexBitsArg < 4 \/ indexBitsArg > 16)
    /\ indexBitsArg \in {4, 16} => ~err
    /\ indexBitsArg \in {3, 17} => err

C1_Witness == err /\ indexBitsArg = 17 /\ hll = ZeroHyperLogLog

\* C2: with every bucket at 0, EstimateCardinality returns exactly 0, for
\* every valid precision.
C2_FreshEstimateIsZero ==
    (Usable /\ returned # <<>> /\ countZeroBuckets(Buckets) = Len(Buckets))
        => returned = <<0>>

C2_Witness ==
    /\ Usable /\ indexBitsArg = 16 /\ returned = <<0>>
    /\ countZeroBuckets(Buckets) = 2^16

\* C3: an Add of a value that was added before leaves every bucket, and
\* with it the estimate, unchanged.
C3_AddIdempotent ==
    [][repeated' =>
        /\ hll'.bucketGroup = hll.bucketGroup
        /\ EstimateOf(goarch, hll') = EstimateOf(goarch, hll)]_vars

C3_Witness ==
    /\ Usable /\ repeated /\ added = {"afjtjzd"}
    /\ Buckets[1] = 32 - indexBitsArg

\* C4: no step of Add or EstimateCardinality lowers the value of a bucket.
C4_BucketsNeverDecrease ==
    [][\/ hll'.bucketGroup = hll.bucketGroup
       \/ /\ Len(hll'.bucketGroup) = Len(hll.bucketGroup)
          /\ \A j \in 1..Len(hll.bucketGroup) :
                hll'.bucketGroup[j] >= hll.bucketGroup[j]]_vars

C4_Witness ==
    Usable /\ indexBitsArg = 4 /\ Buckets[1] = 13 /\ Buckets[6] = 1

\* C5: when the raw estimate is at most 2.5 * m and no bucket is zero, the
\* small-range correction is skipped and the raw estimate, truncated, is
\* returned.
C5_NoZeroBucketReturnsRaw ==
    LET raw == RawPrediction(Buckets, hll.constant)
    IN  (/\ Usable /\ returned # <<>>
         /\ countZeroBuckets(Buckets) = 0
         /\ IsSmallRange(Buckets, raw))
            => returned = <<BigQuot(raw.n, raw.d)>>

\* C6: EstimateCardinality never fails and returns a finite integer >= 0.
C6_EstimateFiniteNonNegative ==
    /\ ~panicked
    /\ (Usable /\ returned # <<>>) =>
          /\ returned[1] >= 0
          /\ correct(Buckets, RawPrediction(Buckets, hll.constant)).k # "inf"

\* C7: after Add of a value whose remainder (hash >> p) is 0, the bucket at
\* that value's index holds at least 1.
C7_ZeroRemainderRanked ==
    Usable =>
        \A s \in added :
            RemainderOf(s) = <<0, 0>> => Buckets[IndexOf(s) + 1] >= 1

\* C8: splitBinary(h) returns index = h mod 2^p and remainder = h div 2^p,
\* so the index is below m; h = 213 with p = 4 gives (5, 13).
C8_SplitIsModDiv ==
    splitOut # <<>> =>
        LET h == splitIn[1]
            p == hll.indexBits
            index == splitOut[1][1]
            remainder == splitOut[1][2]
            quotient == h[1] * 2^(16 - p) + (h[2] \div 2^p)
        IN  /\ index = <<0, h[2] % 2^p>>
            /\ remainder = <<quotient \div Half, quotient % Half>>
            /\ index[1] = 0 /\ index[2] < hll.mBuckets
            /\ index[2] < Len(Buckets)
            /\ (p = 4 /\ h = <<0, 213>>) => splitOut[1] = <<(<<0, 5>>), (<<0, 13>>)>>

C8_Witness ==
    /\ indexBitsArg = 4 /\ splitIn = <<(<<0, 213>>)>>
    /\ splitOut = <<(<<(<<0, 5>>), (<<0, 13>>)>>)>>

\* C9: the bucket group has exactly 2^p entries and every bucket holds an
\* integer in 0..(33 - p).
C9_BucketsInRange ==
    ~err =>
        /\ Len(Buckets) = 2^indexBitsArg
        /\ \A j \in 1..Len(Buckets) : Buckets[j] \in 0..(33 - indexBitsArg)

C9_Witness ==
    Usable /\ indexBitsArg = 12 /\ Buckets[1] = 20 /\ Buckets[2^12] = 1

\* C10: the buckets depend only on the set of values added, not on their
\* order or repetition: each bucket holds the greatest rank among the added
\* values of its index (0 if there is none), and the estimate returned is the
\* estimate of those buckets.
ExpectedBucket(j) ==
    SetMax({0} \cup {RankOf(s) : s \in {t \in added : IndexOf(t) = j - 1}})

C10_BucketsDependOnSetOnly ==
    Usable =>
        /\ \A j \in 1..Len(Buckets) : Buckets[j] = ExpectedBucket(j)
        /\ returned # <<>> =>
              returned[1] =
                  harmonicMean(goarch, [j \in 1..Len(Buckets) |-> ExpectedBucket(j)],
                               hll.constant)

C10_Witness ==
    /\ Usable /\ repeated /\ returned # <<>>
    /\ {"afjtjzd", "icjbdbk", "ewofwof"} \subseteq added
    /\ Buckets[1] = 32 - indexBitsArg

====
